---- MODULE Spec2Model ----
(***************************************************************************)
(* Model of my_data_app.py: the CoinAfrique scraper (scrape_multiple,      *)
(* scrape_category, detect_last_page), the cleaning pipeline (clean_price, *)
(* clean_address, clean_raw_dataframe), the upload import                  *)
(* (save_uploaded_to_raw) and the two SQLite tables they write.            *)
(*                                                                         *)
(* Python values are records [t, s]: t is the type tag ("none", "nan",     *)
(* "str", "int", "float") and s the payload.  A str is its sequence of     *)
(* characters; a float is <<num, exp>>, the decimal num / 10^exp with no   *)
(* trailing zero.  The timestamps (scraped_at, cleaned_at), conn.commit()  *)
(* and time.sleep() are left out: one thread runs, no statement checked    *)
(* here reads a timestamp, and nothing rolls a transaction back.           *)
(***************************************************************************)
EXTENDS Integers, Sequences, FiniteSets, TLC

VARIABLES
    raw_data,        \* table raw_data, in id order
    cleaned_data,    \* table cleaned_data, in id order
    pc,              \* where the single thread is
    categories,      \* scrape_multiple: argument
    max_pages,       \* scrape_multiple: max_pages_per_cat, passed on as max_pages
    save_raw,        \* scrape_multiple: argument, passed on
    catIdx,          \* scrape_multiple: position of the for loop
    dfs,             \* scrape_multiple: local dfs
    category_key,    \* scrape_category: argument
    last,            \* scrape_category: local last
    page,            \* scrape_category: position of the page loop
    rows,            \* scrape_category: local rows
    ret,             \* what the last top-level call returned or raised
    callStart,       \* Len(runs) when the call in progress was entered
    work,            \* scrape_category and save_uploaded_to_raw calls asked for so far
    cur,             \* observation of the scrape_category call in progress
    runs,            \* observations of the finished scrape_category calls
    uploads,         \* observations of the finished save_uploaded_to_raw calls
    cleanings,       \* observations of the finished clean_raw_dataframe calls
    addrIn,          \* clean_address: argument
    addrOut          \* clean_address: result

vars == <<raw_data, cleaned_data, pc, categories, max_pages, save_raw, catIdx,
          dfs, category_key, last, page, rows, ret, callStart, work, cur, runs,
          uploads, cleanings, addrIn, addrOut>>

(***************************************************************************)
(* Python values                                                           *)
(***************************************************************************)
None == [t |-> "none", s |-> <<>>]

NaN == [t |-> "nan", s |-> <<>>]

Str(chars) == [t |-> "str", s |-> chars]

Float(num, exp) == [t |-> "float", s |-> <<num, exp>>]

IsStr(v) == v.t = "str"

\* the no-break space U+00A0, one character
NBSP == "<nbsp>"

Whitespace == {" ", "\t", "\n", NBSP}

Digits == {"0", "1", "2", "3", "4", "5", "6", "7", "8", "9"}

DigitValue(ch) ==
    CASE ch = "0" -> 0 [] ch = "1" -> 1 [] ch = "2" -> 2 [] ch = "3" -> 3
      [] ch = "4" -> 4 [] ch = "5" -> 5 [] ch = "6" -> 6 [] ch = "7" -> 7
      [] ch = "8" -> 8 [] ch = "9" -> 9

\* str(x)
PyStr(v) ==
    CASE v.t = "str" -> v.s
      [] v.t = "none" -> <<"N", "o", "n", "e">>
      [] v.t = "nan" -> <<"n", "a", "n">>

\* bool(x): None and "" are falsy, NaN and a non-empty str are truthy
Truthy(v) == v.t = "nan" \/ (v.t = "str" /\ v.s # <<>>)

\* a or b
PyOr(a, b) == IF Truthy(a) THEN a ELSE b

(***************************************************************************)
(* str methods                                                             *)
(***************************************************************************)
StartsAt(s, i, tok) ==
    /\ i + Len(tok) - 1 <= Len(s)
    /\ SubSeq(s, i, i + Len(tok) - 1) = tok

RECURSIVE ReplaceFrom(_, _, _)
ReplaceFrom(s, tok, i) ==
    IF i > Len(s) THEN <<>>
    ELSE IF StartsAt(s, i, tok) THEN ReplaceFrom(s, tok, i + Len(tok))
    ELSE <<s[i]>> \o ReplaceFrom(s, tok, i + 1)

\* s.replace(tok, ""): one left-to-right pass over non-overlapping occurrences
Remove(s, tok) == ReplaceFrom(s, tok, 1)

RECURSIVE LStrip(_)
LStrip(s) ==
    IF s # <<>> /\ Head(s) \in Whitespace THEN LStrip(Tail(s)) ELSE s

RECURSIVE RStrip(_)
RStrip(s) ==
    IF s # <<>> /\ s[Len(s)] \in Whitespace
    THEN RStrip(SubSeq(s, 1, Len(s) - 1)) ELSE s

\* s.strip()
Strip(s) == RStrip(LStrip(s))

RECURSIVE SplitFrom(_, _, _)
SplitFrom(s, i, word) ==
    IF i > Len(s) THEN (IF word = <<>> THEN <<>> ELSE <<word>>)
    ELSE IF s[i] \in Whitespace
         THEN (IF word = <<>> THEN <<>> ELSE <<word>>) \o SplitFrom(s, i + 1, <<>>)
         ELSE SplitFrom(s, i + 1, Append(word, s[i]))

\* s.split(): the words between runs of whitespace
Split(s) == SplitFrom(s, 1, <<>>)

RECURSIVE JoinSpace(_)
\* " ".join(words)
JoinSpace(words) ==
    IF words = <<>> THEN <<>>
    ELSE IF Len(words) = 1 THEN words[1]
    ELSE words[1] \o <<" ">> \o JoinSpace(Tail(words))

RECURSIVE Filter(_, _)
\* "".join(ch for ch in s if ch in keep)
Filter(s, keep) ==
    IF s = <<>> THEN <<>>
    ELSE (IF Head(s) \in keep THEN <<Head(s)>> ELSE <<>>) \o Filter(Tail(s), keep)

RECURSIVE IntOf(_)
\* int(digits) of a non-empty string of digits
IntOf(digits) ==
    IF Len(digits) = 1 THEN DigitValue(digits[1])
    ELSE 10 * IntOf(SubSeq(digits, 1, Len(digits) - 1)) + DigitValue(digits[Len(digits)])

RECURSIVE Normalize(_, _)
Normalize(num, exp) ==
    IF exp > 0 /\ num % 10 = 0 THEN Normalize(num \div 10, exp - 1)
    ELSE Float(num, exp)

RECURSIVE IndexOf(_, _, _)
IndexOf(s, ch, i) ==
    IF i > Len(s) THEN 0 ELSE IF s[i] = ch THEN i ELSE IndexOf(s, ch, i + 1)

\* float(s) of a string of digits and points; None stands for ValueError
ParseFloat(s) ==
    LET ds == Filter(s, Digits)
        dot == IndexOf(s, ".", 1)
    IN  IF ds = <<>> \/ Len(s) - Len(ds) > 1 THEN None
        ELSE Normalize(IntOf(ds), IF dot = 0 THEN 0 ELSE Len(s) - dot)

(***************************************************************************)
(* CLEANING                                                                *)
(***************************************************************************)
PriceTokens ==
    << <<"C", "F", "A">>, <<"c", "f", "a">>, <<"X", "O", "F">>,
       <<NBSP>>, <<NBSP>>, <<" ">> >>

RECURSIVE RemoveAll(_, _)
RemoveAll(s, toks) ==
    IF toks = <<>> THEN s ELSE RemoveAll(Remove(s, Head(toks)), Tail(toks))

clean_price(raw_price) ==
    IF raw_price.t = "none" THEN None
    ELSE LET s == Remove(RemoveAll(PyStr(raw_price), PriceTokens), <<",">>)
             digits == Filter(s, Digits \cup {"."})
         IN  IF digits # <<>> THEN ParseFloat(digits) ELSE None

Marker == <<"l", "o", "c", "a", "t", "i", "o", "n", "_", "o", "n">>

clean_address(raw_addr) ==
    IF raw_addr.t = "none" THEN None
    ELSE LET s == JoinSpace(Split(Strip(Remove(PyStr(raw_addr), Marker))))
         IN  IF s # <<>> THEN Str(s) ELSE None

CleanedRow(cat, name, price, address, image) ==
    [category |-> cat, name |-> name, price |-> price, address |-> address,
     image |-> image]

(***************************************************************************)
(* CONFIG and the tables                                                   *)
(***************************************************************************)
CATEGORIES ==
    [k \in {"chiens", "moutons", "poules-lapins-et-pigeons", "autres-animaux"} |->
        CASE k = "chiens" -> "https://sn.coinafrique.com/categorie/chiens"
          [] k = "moutons" -> "https://sn.coinafrique.com/categorie/moutons"
          [] k = "poules-lapins-et-pigeons" ->
                 "https://sn.coinafrique.com/categorie/poules-lapins-et-pigeons"
          [] k = "autres-animaux" ->
                 "https://sn.coinafrique.com/categorie/autres-animaux"]

RawColumns == <<"category", "source_url", "v1", "v2", "v3", "v4", "scraped_at">>

RawRow(cat, url, v1, v2, v3, v4) ==
    [category |-> cat, source_url |-> url, v1 |-> v1, v2 |-> v2, v3 |-> v3, v4 |-> v4]

\* what sqlite3 binds for a Python value: None and a float nan become NULL
ToSql(v) == IF v.t = "nan" THEN None ELSE v

\* column = ?  in a WHERE clause: NULL = NULL is not true
SqlEq(col, param) == col.t # "none" /\ ToSql(param).t # "none" /\ col = ToSql(param)

\* SELECT 1 FROM raw_data WHERE category=? AND v1=? AND v2=? AND v3=? AND v4=?
SelectRaw(table, cat, v1, v2, v3, v4) ==
    \E i \in 1..Len(table) :
        /\ table[i].category = cat
        /\ SqlEq(table[i].v1, v1) /\ SqlEq(table[i].v2, v2)
        /\ SqlEq(table[i].v3, v3) /\ SqlEq(table[i].v4, v4)

\* SELECT 1 FROM raw_data WHERE v1=? AND v2=? AND v3=? AND v4=?
SelectRawUploaded(table, v1, v2, v3, v4) ==
    \E i \in 1..Len(table) :
        /\ SqlEq(table[i].v1, v1) /\ SqlEq(table[i].v2, v2)
        /\ SqlEq(table[i].v3, v3) /\ SqlEq(table[i].v4, v4)

\* INSERT INTO raw_data (...) VALUES (...)
InsertRaw(table, cat, url, v1, v2, v3, v4) ==
    Append(table, RawRow(cat, url, ToSql(v1), ToSql(v2), ToSql(v3), ToSql(v4)))

(***************************************************************************)
(* SCRAPING                                                                *)
(***************************************************************************)
PageParam == <<"p", "a", "g", "e", "=">>

RECURSIVE AfterLast(_, _, _, _)
\* href.split(tok)[-1]: what follows the last occurrence of tok
AfterLast(s, tok, i, from) ==
    IF i > Len(s) THEN SubSeq(s, from, Len(s))
    ELSE IF StartsAt(s, i, tok) THEN AfterLast(s, tok, i + Len(tok), i + Len(tok))
    ELSE AfterLast(s, tok, i + 1, from)

\* part.split("&")[0]
BeforeFirst(s, ch) ==
    LET i == IndexOf(s, ch, 1) IN IF i = 0 THEN s ELSE SubSeq(s, 1, i - 1)

\* "page=" in href
Contains(s, tok) == \E i \in 1..Len(s) : StartsAt(s, i, tok)

Max(a, b) == IF a > b THEN a ELSE b

Min(a, b) == IF a < b THEN a ELSE b

RECURSIVE detect_from(_, _)
detect_from(links, max_page) ==
    IF links = <<>> THEN max_page
    ELSE LET href == Head(links)
             part == BeforeFirst(AfterLast(href, PageParam, 1, 1), "&")
             ds == Filter(part, Digits)
         IN  IF Contains(href, PageParam) /\ ds # <<>>
             THEN detect_from(Tail(links), Max(max_page, IntOf(ds)))
             ELSE detect_from(Tail(links), max_page)

\* links: the href of every <a href> of the document, in document order
detect_last_page(links) == detect_from(links, 1)

\* element.text.strip() of an element that may be missing
TextOf(el) == IF IsStr(el) THEN Str(Strip(el.s)) ELSE None

\* container: the text of p.ad__card-description and of its <a>, of
\* p.ad__card-price and p.ad__card-location, and the src of the first img
parse_container(container) ==
    LET v1 == IF IsStr(container.desc)
              THEN (IF IsStr(container.a) THEN TextOf(container.a)
                    ELSE TextOf(container.desc))
              ELSE None
    IN  <<v1, TextOf(container.price), TextOf(container.loc), container.img>>

RECURSIVE Decimal(_)
Decimal(n) ==
    IF n < 10 THEN <<SubSeq(<<"0", "1", "2", "3", "4", "5", "6", "7", "8", "9">>,
                            n + 1, n + 1)[1]>>
    ELSE Decimal(n \div 10) \o Decimal(n % 10)

\* f"{base}?page={page}"
PageUrl(base, n) == <<base, "?page=">> \o Decimal(n)

PyInt(n) == [t |-> "int", s |-> <<n>>]

\* CATEGORIES.get(category_key): no KeyError for any key
AnyCategory(key) == TRUE

\* CATEGORIES[category_key] does not raise KeyError
KnownCategory(key) == key \in DOMAIN CATEGORIES

\* if max_pages: last = min(last, max_pages)
ClampAnyNonZero(estimate, mp) ==
    IF mp.t = "int" /\ mp.s[1] # 0 THEN Min(estimate, mp.s[1]) ELSE estimate

\* if max_pages and max_pages > 0: last = min(last, max_pages)
Clamp(estimate, mp) ==
    IF mp.t = "int" /\ mp.s[1] # 0 /\ mp.s[1] > 0 THEN Min(estimate, mp.s[1])
    ELSE estimate

\* except Exception: st.warning(...); break
AbortAfterFailedFetch(p, lastPage) == lastPage + 1

\* except Exception: st.warning(...); continue
AfterFailedFetch(p, lastPage) == p + 1

RECURSIVE ScrapeContainers(_, _, _, _, _)
\* for cont in containers: ...   st = [rows, raw, inserted]
ScrapeContainers(containers, cat, url, sr, st) ==
    IF containers = <<>> THEN st
    ELSE LET v == parse_container(Head(containers))
             exists == SelectRaw(st.raw, cat, v[1], v[2], v[3], v[4])
             ins == sr /\ ~exists
         IN  ScrapeContainers(Tail(containers), cat, url, sr,
                 [rows |-> Append(st.rows, RawRow(cat, url, v[1], v[2], v[3], v[4])),
                  raw |-> IF ins THEN InsertRaw(st.raw, cat, url, v[1], v[2], v[3], v[4])
                          ELSE st.raw,
                  inserted |-> IF ins THEN st.inserted + 1 ELSE st.inserted])

DataFrame(columns, rs) == [columns |-> columns, rows |-> rs]

RECURSIVE Concat(_)
\* pd.concat(dfs, ignore_index=True) of frames with the same columns
Concat(frames) ==
    IF Len(frames) = 1 THEN frames[1]
    ELSE DataFrame(frames[1].columns, frames[1].rows \o Concat(Tail(frames)).rows)

\* dfs.insert(0, df)
PrependFrame(frames, df) == <<df>> \o frames

\* dfs.append(df)
AppendFrame(frames, df) == Append(frames, df)

(***************************************************************************)
(* UPLOAD                                                                  *)
(***************************************************************************)
\* row.get(col): None when the uploaded table has no such column
Get(row, col) == IF col \in DOMAIN row THEN row[col] ELSE None

MapV1(row) ==
    PyOr(PyOr(PyOr(Get(row, "name"), Get(row, "Name")), Get(row, "title")),
         Get(row, "details"))

MapV2(row) == PyOr(PyOr(Get(row, "price"), Get(row, "price_raw")), Get(row, "prix"))

MapV3(row) ==
    PyOr(PyOr(Get(row, "address"), Get(row, "location")), Get(row, "address_raw"))

MapV4(row) ==
    PyOr(PyOr(Get(row, "image"), Get(row, "image_src")), Get(row, "image_link"))

UploadedRecord(row) ==
    RawRow("uploaded", <<"uploaded_file">>, Str(PyStr(MapV1(row))),
           Str(PyStr(MapV2(row))), Str(PyStr(MapV3(row))), Str(PyStr(MapV4(row))))

\* the raw-record identity (category, v1, v2, v3, v4), None matching None
SameIdentity(a, b) ==
    /\ a.category = b.category
    /\ a.v1 = b.v1 /\ a.v2 = b.v2 /\ a.v3 = b.v3 /\ a.v4 = b.v4

Holds(table, rec) == \E i \in 1..Len(table) : SameIdentity(table[i], rec)

RECURSIVE UploadRows(_, _)
\* for _, row in df_uploaded.iterrows(): ...   st = [raw, saved, steps]
UploadRows(df, st) ==
    IF df = <<>> THEN st
    ELSE LET rec == UploadedRecord(Head(df))
             found == SelectRawUploaded(st.raw, rec.v1, rec.v2, rec.v3, rec.v4)
         IN  UploadRows(Tail(df),
                 [raw |-> IF found THEN st.raw
                          ELSE InsertRaw(st.raw, "uploaded", <<"uploaded_file">>,
                                         rec.v1, rec.v2, rec.v3, rec.v4),
                  saved |-> IF found THEN st.saved ELSE st.saved + 1,
                  steps |-> Append(st.steps,
                                [row |-> Head(df), rec |-> rec,
                                 lacked |-> ~Holds(st.raw, rec),
                                 inserted |-> ~found])])

(***************************************************************************)
(* Inputs: what the callers pass and what the site answers                 *)
(***************************************************************************)
\* scrape_category calls in one behaviour of Spec
MaxRuns == 2

\* scrape_category and save_uploaded_to_raw calls in one behaviour of SpecStore
MaxStoreOps == 3

\* rows of an uploaded table
MaxUploadRows == 2

Rex == <<"R", "e", "x">>

Fifty == <<"5", "0", "0", "0", "0">>

Dakar == <<"D", "a", "k", "a", "r">>

Img == <<"i", ".", "j", "p", "g">>

\* a complete listing card
FullCard ==
    [desc |-> Str(<<" ">> \o Rex \o <<"\n">>), a |-> Str(Rex),
     price |-> Str(Fifty \o <<" ">>), loc |-> Str(Dakar), img |-> Str(Img)]

\* a card with no location paragraph and no image
PartialCard ==
    [desc |-> Str(Rex), a |-> None, price |-> Str(Fifty), loc |-> None, img |-> None]

\* a card whose location text and image src read "None"
LiteralCard ==
    [desc |-> Str(Rex), a |-> None, price |-> Str(Fifty),
     loc |-> Str(PyStr(None)), img |-> Str(PyStr(None))]

SeqsUpTo(S, n) == UNION {[1..k -> S] : k \in 0..n}

FetchError == [ok |-> FALSE, links |-> <<>>, containers |-> <<>>]

Document(links, containers) == [ok |-> TRUE, links |-> links, containers |-> containers]

\* a first page with no pagination links
PlainLinks == << <<"/", "a", "d", "/", "9">> >>

\* a first page whose pagination links give 2: one link without page=, one
\* with page=1, one whose page number has no digit, one with two page=
PagedLinks ==
    << <<"/", "a", "d", "/", "9">>,
       <<"?", "p", "a", "g", "e", "=", "1", "&", "s", "=", "7">>,
       <<"?", "p", "a", "g", "e", "=", "x">>,
       <<"?", "q", "=", "p", "a", "g", "e", "=", "3", "&", "p", "a", "g", "e", "=", "0", "2", "a">> >>

CategoryKeys == {"chiens", "moutons", "chats"}

MaxPagesArgs == {None, PyInt(0), PyInt(-1), PyInt(1), PyInt(2)}

UploadedRows ==
    { [name |-> Str(Rex), price |-> Str(Fifty)],
      [title |-> Str(Rex), prix |-> Str(Fifty), location |-> Str(Dakar),
       image_link |-> Str(Img)],
      [name |-> Str(<<>>), details |-> Str(Rex), price |-> NaN, address |-> Str(Dakar)] }

(***************************************************************************)
(* The application: one thread, the tables shared by every call            *)
(***************************************************************************)
NoRun ==
    [cat |-> "", status |-> "none", sr |-> FALSE, mp |-> None,
     first |-> FetchError, last |-> 0, log |-> <<>>, rows |-> <<>>,
     inserted |-> 0, fetches |-> 0, before |-> <<>>, after |-> <<>>]

NoRet == [op |-> "none", status |-> "none", args |-> <<>>, value |-> DataFrame(<<>>, <<>>)]

\* the tables after init_db() on a fresh database file, no call entered
Fresh ==
    /\ raw_data = <<>>
    /\ cleaned_data = <<>>
    /\ categories = <<>>
    /\ max_pages = None
    /\ save_raw = TRUE
    /\ catIdx = 1
    /\ dfs = <<>>
    /\ category_key = ""
    /\ last = 0
    /\ page = 1
    /\ rows = <<>>
    /\ ret = NoRet
    /\ callStart = 0
    /\ work = 0
    /\ cur = NoRun
    /\ runs = <<>>
    /\ uploads = <<>>
    /\ cleanings = <<>>
    /\ addrOut = None

Init ==
    /\ Fresh
    /\ pc = "idle"
    /\ addrIn = None

\* the locals of scrape_multiple and scrape_category go out of scope
Unwind ==
    /\ categories' = <<>>
    /\ max_pages' = None
    /\ save_raw' = TRUE
    /\ catIdx' = 1
    /\ dfs' = <<>>
    /\ category_key' = ""
    /\ last' = 0
    /\ page' = 1
    /\ rows' = <<>>

\* scrape_multiple(categories, max_pages_per_cat, save_raw) is entered
\* (remember: whether the observations of the earlier calls are kept)
CallScrapeMultiple(lists, mps, budget, remember) ==
    /\ pc = "idle"
    /\ \E cats \in lists, mp \in mps, sr \in BOOLEAN :
        /\ work + Len(cats) <= budget
        /\ work < budget
        /\ work' = work + (IF cats = <<>> THEN 1 ELSE Len(cats))
        /\ categories' = cats
        /\ max_pages' = mp
        /\ save_raw' = sr
    /\ catIdx' = 1
    /\ dfs' = <<>>
    /\ pc' = "multi"
    /\ runs' = IF remember THEN runs ELSE <<>>
    /\ callStart' = IF remember THEN Len(runs) ELSE 0
    /\ ret' = [NoRet EXCEPT !.op = "scrape_multiple", !.status = "running"]
    /\ UNCHANGED <<raw_data, cleaned_data, category_key, last, page, rows, cur,
                   uploads, cleanings, addrIn, addrOut>>

\* scrape_category(cat, ...): CATEGORIES[category_key] raises KeyError, which
\* nothing catches: scrape_multiple ends with it
ScrapeCategoryUnknown ==
    /\ pc = "multi"
    /\ catIdx <= Len(categories)
    /\ ~KnownCategory(categories[catIdx])
    /\ pc' = "idle"
    /\ ret' = [NoRet EXCEPT !.op = "scrape_multiple", !.status = "KeyError",
                             !.args = categories]
    /\ runs' = Append(runs, [NoRun EXCEPT !.cat = categories[catIdx],
                                          !.status = "KeyError", !.sr = save_raw,
                                          !.mp = max_pages, !.before = raw_data,
                                          !.after = raw_data])
    /\ Unwind
    /\ UNCHANGED <<raw_data, cleaned_data, callStart, work, cur, uploads, cleanings,
                   addrIn, addrOut>>

\* scrape_category(cat, ...) up to the page loop: the first fetch, the page
\* count and its clamp
ScrapeCategoryStart(firsts) ==
    /\ pc = "multi"
    /\ catIdx <= Len(categories)
    /\ KnownCategory(categories[catIdx])
    /\ \E first \in firsts :
        LET estimate == IF first.ok THEN detect_last_page(first.links) ELSE 1
        IN  /\ last' = Clamp(estimate, max_pages)
            /\ cur' = [NoRun EXCEPT !.cat = categories[catIdx],
                                    !.status = "running", !.sr = save_raw,
                                    !.mp = max_pages, !.first = first,
                                    !.fetches = 1, !.before = raw_data]
    /\ category_key' = categories[catIdx]
    /\ rows' = <<>>
    /\ page' = 1
    /\ pc' = "pages"
    /\ UNCHANGED <<raw_data, cleaned_data, categories, max_pages, save_raw, catIdx,
                   dfs, ret, callStart, work, runs, uploads, cleanings, addrIn,
                   addrOut>>

\* one iteration of the page loop whose fetch fails
FetchPageFails ==
    /\ pc = "pages"
    /\ page <= last
    /\ page' = AfterFailedFetch(page, last)
    /\ cur' = [cur EXCEPT !.fetches = @ + 1,
                          !.log = Append(@, [page |-> page, out |-> FetchError])]
    /\ UNCHANGED <<raw_data, cleaned_data, pc, categories, max_pages, save_raw,
                   catIdx, dfs, category_key, last, rows, ret, callStart, work,
                   runs, uploads, cleanings, addrIn, addrOut>>

\* one iteration of the page loop whose fetch succeeds
FetchPage(documents) ==
    /\ pc = "pages"
    /\ page <= last
    /\ \E out \in documents :
        LET url == PageUrl(CATEGORIES[category_key], page)
            st == ScrapeContainers(out.containers, category_key, url, save_raw,
                                   [rows |-> rows, raw |-> raw_data, inserted |-> 0])
        IN  /\ rows' = st.rows
            /\ raw_data' = st.raw
            /\ cur' = [cur EXCEPT !.fetches = @ + 1,
                                  !.inserted = @ + st.inserted,
                                  !.log = Append(@, [page |-> page, out |-> out])]
    /\ page' = page + 1
    /\ UNCHANGED <<cleaned_data, pc, categories, max_pages, save_raw, catIdx, dfs,
                   category_key, last, ret, callStart, work, runs, uploads,
                   cleanings, addrIn, addrOut>>

\* scrape_category returns its DataFrame; scrape_multiple appends it
ScrapeCategoryReturn ==
    /\ pc = "pages"
    /\ page > last
    /\ dfs' = AppendFrame(dfs, DataFrame(RawColumns, rows))
    /\ runs' = Append(runs, [cur EXCEPT !.status = "ok", !.last = last,
                                        !.rows = rows, !.after = raw_data])
    /\ catIdx' = catIdx + 1
    /\ pc' = "multi"
    /\ UNCHANGED <<raw_data, cleaned_data, categories, max_pages, save_raw,
                   category_key, last, page, rows, ret, callStart, work, cur,
                   uploads, cleanings, addrIn, addrOut>>

\* scrape_multiple returns
ScrapeMultipleReturn ==
    /\ pc = "multi"
    /\ catIdx > Len(categories)
    /\ ret' = [NoRet EXCEPT !.op = "scrape_multiple", !.status = "ok",
                             !.args = categories,
                             !.value = IF dfs # <<>> THEN Concat(dfs)
                                       ELSE DataFrame(RawColumns, <<>>)]
    /\ pc' = "idle"
    /\ Unwind
    /\ UNCHANGED <<raw_data, cleaned_data, callStart, work, cur, runs, uploads,
                   cleanings, addrIn, addrOut>>

\* save_uploaded_to_raw(df_uploaded)
SaveUploadedToRaw(tables, budget) ==
    /\ pc = "idle"
    /\ work < budget
    /\ work' = work + 1
    /\ \E df \in tables :
        LET st == UploadRows(df, [raw |-> raw_data, saved |-> 0, steps |-> <<>>])
        IN  /\ raw_data' = st.raw
            /\ uploads' = Append(uploads, [df |-> df, saved |-> st.saved,
                                           steps |-> st.steps,
                                           before |-> raw_data])
            /\ ret' = [NoRet EXCEPT !.op = "save_uploaded_to_raw", !.status = "ok"]
    /\ UNCHANGED <<cleaned_data, pc, categories, max_pages, save_raw, catIdx, dfs,
                   category_key, last, page, rows, callStart, cur, runs, cleanings,
                   addrIn, addrOut>>

(***************************************************************************)
(* Spec: the scraper.  Any list of category keys, any max_pages, a site    *)
(* whose every fetch may fail.                                             *)
(***************************************************************************)
Firsts == {FetchError, Document(PlainLinks, <<>>), Document(PagedLinks, <<>>)}

Pages == {Document(<<>>, <<FullCard>>), Document(<<>>, <<PartialCard>>)}

Next ==
    \/ CallScrapeMultiple(SeqsUpTo(CategoryKeys, MaxRuns), MaxPagesArgs, MaxRuns, FALSE)
    \/ ScrapeCategoryUnknown
    \/ ScrapeCategoryStart(Firsts)
    \/ FetchPageFails
    \/ FetchPage(Pages)
    \/ ScrapeCategoryReturn
    \/ ScrapeMultipleReturn

Spec == Init /\ [][Next]_vars

(***************************************************************************)
(* SpecStore: the raw store under repeated scrapes of one category and     *)
(* repeated uploads.                                                       *)
(***************************************************************************)
StorePages ==
    {Document(<<>>, cs) : cs \in {<<FullCard>>, <<PartialCard>>, <<LiteralCard>>}}

NextStore ==
    \/ CallScrapeMultiple({<<"chiens">>}, {None}, MaxStoreOps, TRUE)
    \/ ScrapeCategoryStart({FetchError, Document(PagedLinks, <<>>)})
    \/ FetchPageFails
    \/ FetchPage(StorePages)
    \/ ScrapeCategoryReturn
    \/ ScrapeMultipleReturn
    \/ SaveUploadedToRaw(SeqsUpTo(UploadedRows, MaxUploadRows), MaxStoreOps)

SpecStore == Init /\ [][NextStore]_vars

(***************************************************************************)
(* SpecClean: clean_raw_dataframe on the tables its caller passes          *)
(***************************************************************************)
\* SELECT 1 FROM cleaned_data WHERE category=? AND name=? AND price=? AND address=?
SelectCleaned(table, cat, name, price, address) ==
    \E i \in 1..Len(table) :
        /\ table[i].category = cat
        /\ SqlEq(table[i].name, name) /\ SqlEq(table[i].price, price)
        /\ SqlEq(table[i].address, address)

\* v1.strip() if isinstance(v1, str) else None
CleanName(v1) == IF IsStr(v1) THEN Str(Strip(v1.s)) ELSE None

RECURSIVE CleanRows(_, _)
\* for _, r in df_raw.iterrows(): ...   st = [rows, cleaned, steps]
CleanRows(df, st) ==
    IF df = <<>> THEN st
    ELSE LET r == Head(df)
             name == CleanName(r.v1)
             price == clean_price(r.v2)
             address == clean_address(r.v3)
             exists == SelectCleaned(st.cleaned, r.category, name, price, address)
             row == CleanedRow(r.category, name, price, address, r.v4)
         IN  CleanRows(Tail(df),
                 [rows |-> Append(st.rows, row),
                  cleaned |-> IF exists THEN st.cleaned
                              ELSE Append(st.cleaned,
                                       CleanedRow(r.category, name, price, address,
                                                  ToSql(r.v4))),
                  steps |-> Append(st.steps, [raw |-> r, row |-> row,
                                              inserted |-> ~exists])])

RECURSIVE DropDuplicates(_, _)
\* df_clean.drop_duplicates(subset=["name","price","address"]): the first of
\* each (name, price, address) is kept, a missing value equal to a missing value
DropDuplicates(rs, kept) ==
    IF rs = <<>> THEN kept
    ELSE LET r == Head(rs)
             dup == \E i \in 1..Len(kept) :
                       /\ kept[i].name = r.name /\ kept[i].price = r.price
                       /\ kept[i].address = r.address
         IN  DropDuplicates(Tail(rs), IF dup THEN kept ELSE Append(kept, r))

CleanedColumns == <<"category", "name", "price", "address", "image">>

\* clean_raw_dataframe(df_raw)
CleanRawDataframe(tables, budget) ==
    /\ pc = "idle"
    /\ Len(cleanings) < budget
    /\ \E df \in tables :
        LET st == CleanRows(df, [rows |-> <<>>, cleaned |-> cleaned_data,
                                 steps |-> <<>>])
        IN  /\ cleaned_data' = st.cleaned
            /\ cleanings' = Append(cleanings,
                                [df |-> df, steps |-> st.steps,
                                 count |-> Len(st.cleaned)])
            /\ ret' = [NoRet EXCEPT !.op = "clean_raw_dataframe", !.status = "ok",
                                    !.value = DataFrame(CleanedColumns,
                                                        DropDuplicates(st.rows, <<>>))]
    /\ UNCHANGED <<raw_data, pc, categories, max_pages, save_raw, catIdx, dfs,
                   category_key, last, page, rows, callStart, work, cur, runs,
                   uploads, addrIn, addrOut>>

\* clean_raw_dataframe calls in one behaviour of SpecClean
MaxCleanings == 2

\* rows of a raw table passed to clean_raw_dataframe
MaxCleanRows == 2

Price12500 == <<"1", "2", " ", "5", "0", "0", NBSP, "C", "F", "A">>

\* raw rows as scrape_category returns them and as raw_data stores them
RawInputs ==
    { [category |-> "chiens", v1 |-> v1, v2 |-> v2, v3 |-> v3, v4 |-> Str(Img)] :
        v1 \in {None, NaN, Str(<<>>), Str(Rex)},
        v2 \in {None, Str(Price12500)},
        v3 \in {None, Str(Marker \o <<" ", " ">> \o Dakar)} }

NextClean == CleanRawDataframe(SeqsUpTo(RawInputs, MaxCleanRows), MaxCleanings)

SpecClean == Init /\ [][NextClean]_vars

(***************************************************************************)
(* SpecAddr: clean_address on every string made of a few pieces            *)
(***************************************************************************)
\* pieces of a raw location string
MaxAddrPieces == 3

AddrPieces ==
    { Marker, <<"l", "o", "c", "a", "t", "i", "o", "n">>, <<"_", "o", "n">>,
      <<" ">>, <<NBSP>>, <<"\n">>, Dakar, <<",">> }

RECURSIVE Flatten(_)
Flatten(pieces) ==
    IF pieces = <<>> THEN <<>> ELSE Head(pieces) \o Flatten(Tail(pieces))

AddrInputs ==
    {None, NaN} \cup {Str(Flatten(ps)) : ps \in SeqsUpTo(AddrPieces, MaxAddrPieces)}

InitAddr ==
    /\ Fresh
    /\ pc = "address"
    /\ addrIn \in AddrInputs

\* address = clean_address(v3)
CallCleanAddress ==
    /\ pc = "address"
    /\ addrOut' = clean_address(addrIn)
    /\ pc' = "address_done"
    /\ UNCHANGED <<raw_data, cleaned_data, categories, max_pages, save_raw, catIdx,
                   dfs, category_key, last, page, rows, ret, callStart, work, cur,
                   runs, uploads, cleanings, addrIn>>

NextAddr == CallCleanAddress

SpecAddr == InitAddr /\ [][NextAddr]_vars

(***************************************************************************)
(* The statements checked                                                  *)
(***************************************************************************)
\* the scrape_category calls of the scrape_multiple call in progress or last made
CurrentRuns == SubSeq(runs, callStart + 1, Len(runs))

Registered(key) == key \in DOMAIN CATEGORIES

RECURSIVE RecordsOfContainers(_, _, _)
RecordsOfContainers(cat, url, containers) ==
    IF containers = <<>> THEN <<>>
    ELSE LET v == parse_container(Head(containers))
         IN  <<RawRow(cat, url, v[1], v[2], v[3], v[4])>>
             \o RecordsOfContainers(cat, url, Tail(containers))

RECURSIVE RecordsOfLog(_, _)
\* the records of the pages of a log whose fetch succeeded, in page order
RecordsOfLog(cat, log) ==
    IF log = <<>> THEN <<>>
    ELSE (IF Head(log).out.ok
          THEN RecordsOfContainers(cat, PageUrl(CATEGORIES[cat], Head(log).page),
                                   Head(log).out.containers)
          ELSE <<>>) \o RecordsOfLog(cat, Tail(log))

\* the scrape_category call that ended last; every call is the last one in the
\* state its return or its KeyError leads to
LastRun == runs[Len(runs)]

\* the page indices of a log are 1, 2, ..., n
PagesInOrder(log, n) == Len(log) = n /\ \A p \in 1..n : log[p].page = p

\* C3: a fetch failure is page-local.  A scrape_category call for a registered
\* key returns normally whatever fetches fail; a failed first fetch gives a
\* page count of 1; every page 1..last is fetched, also after a failed one; the
\* result holds the records of every page fetched successfully, and with
\* save_raw each of them is in raw_data.
C3_FetchFailureIsPageLocal ==
    /\ runs # <<>> =>
        LET r == LastRun
        IN  Registered(r.cat) =>
              /\ r.status = "ok"
              /\ ~r.first.ok => r.last = 1
              /\ PagesInOrder(r.log, r.last)
              /\ r.rows = RecordsOfLog(r.cat, r.log)
              /\ r.sr => \A k \in 1..Len(r.rows) : Holds(r.after, r.rows[k])
    /\ pc = "pages" =>
          /\ PagesInOrder(cur.log, page - 1)
          /\ rows = RecordsOfLog(category_key, cur.log)
          /\ save_raw => \A k \in 1..Len(rows) : Holds(raw_data, rows[k])

\* C3 witness: in one scrape_multiple call, a run whose first fetch failed and
\* whose only page was scraped, then a run whose page 1 failed and whose page 2
\* was scraped and saved
C3_Witness ==
    /\ Len(runs) = 2
    /\ ~runs[1].first.ok /\ runs[1].rows # <<>>
    /\ runs[2].sr /\ runs[2].last = 2
    /\ ~runs[2].log[1].out.ok /\ runs[2].log[2].out.ok
    /\ runs[2].rows # <<>>

\* C4: scrape_category with a key that is not in CATEGORIES fails with KeyError
\* before any fetch and leaves raw_data as it was; with a registered key it
\* never fails.
C4_OnlyUnknownCategoryFails ==
    /\ runs # <<>> =>
        LET r == LastRun
        IN  /\ ~Registered(r.cat) =>
                  r.status = "KeyError" /\ r.fetches = 0 /\ r.after = r.before
            /\ Registered(r.cat) => r.status = "ok"
    /\ pc = "pages" => Registered(category_key)
    /\ ret.status = "KeyError" =>
          /\ runs # <<>>
          /\ ~Registered(LastRun.cat)
          /\ raw_data = LastRun.before

\* C4 witness: an unknown key after a registered one whose rows were saved
C4_Witness ==
    /\ ret.status = "KeyError"
    /\ Len(runs) = 2
    /\ runs[1].status = "ok" /\ runs[1].inserted > 0
    /\ raw_data # <<>>

\* the page count the claim states
StatedPageCount(r) ==
    LET estimate == IF r.first.ok THEN detect_last_page(r.first.links) ELSE 1
    IN  IF r.mp.t = "int" /\ r.mp.s[1] > 0
        THEN (IF estimate < r.mp.s[1] THEN estimate ELSE r.mp.s[1])
        ELSE estimate

\* C9: the page loop fetches exactly the pages 1..N in increasing order, each
\* once, N being the estimate (1 when the first fetch fails) clamped to
\* min(estimate, max_pages) when max_pages is a positive number and the
\* estimate when max_pages is None, 0 or negative.
C9_PagesWalked ==
    /\ runs # <<>> =>
        LET r == LastRun
            n == StatedPageCount(r)
        IN  r.status = "ok" =>
              /\ PagesInOrder(r.log, n)
              /\ r.fetches = 1 + n
    /\ pc = "pages" => PagesInOrder(cur.log, page - 1)

\* C9 witness: an estimate of 2 clamped to 1 by max_pages, one page fetched
C9_Witness ==
    \E i \in 1..Len(runs) :
        /\ runs[i].status = "ok"
        /\ runs[i].first.ok /\ detect_last_page(runs[i].first.links) = 2
        /\ runs[i].mp = PyInt(1)
        /\ Len(runs[i].log) = 1

RECURSIVE RowsOfRuns(_)
RowsOfRuns(rs) == IF rs = <<>> THEN <<>> ELSE Head(rs).rows \o RowsOfRuns(Tail(rs))

\* the first position of a key in a list
FirstIndex(list, key) == CHOOSE i \in 1..Len(list) : list[i] = key /\ \A j \in 1..(i - 1) : list[j] # key

\* a category set: no key listed twice
NoRepeat(list) == \A i, j \in 1..Len(list) : list[i] = list[j] => i = j

\* C10: scrape_multiple calls scrape_category once per key, in the order
\* supplied, and returns the concatenation of what the calls returned, so that
\* (no key being listed twice) the records of an earlier key come before those
\* of a later key; for an empty list it returns an empty table with the raw
\* columns and fetches nothing.
C10_ResultsInCategoryOrder ==
    /\ pc \in {"multi", "pages"} =>
          /\ Len(CurrentRuns) = catIdx - 1
          /\ \A i \in 1..Len(CurrentRuns) : CurrentRuns[i].cat = categories[i]
    /\ (ret.op = "scrape_multiple" /\ ret.status = "ok") =>
          /\ Len(CurrentRuns) = Len(ret.args)
          /\ \A i \in 1..Len(CurrentRuns) : CurrentRuns[i].cat = ret.args[i]
          /\ ret.value.columns = RawColumns
          /\ ret.value.rows = RowsOfRuns(CurrentRuns)
          /\ NoRepeat(ret.args) => \A i, j \in 1..Len(ret.value.rows) :
                i < j => FirstIndex(ret.args, ret.value.rows[i].category)
                            <= FirstIndex(ret.args, ret.value.rows[j].category)
          /\ ret.args = <<>> => ret.value.rows = <<>> /\ CurrentRuns = <<>>

\* C10 witness: two categories, both with records, returned in the order given
C10_Witness ==
    /\ ret.op = "scrape_multiple" /\ ret.status = "ok"
    /\ ret.args = <<"moutons", "chiens">>
    /\ Len(ret.value.rows) = 3
    /\ ret.value.rows[1].category = "moutons"
    /\ ret.value.rows[3].category = "chiens"

\* identical fetched content: the same category, and page by page the same
\* fetch outcome and the same containers
SameFetchedContent(a, b) == a.cat = b.cat /\ a.last = b.last /\ a.log = b.log

\* C1: of two scrape_category runs with save_raw on identical fetched content,
\* the second inserts no row into raw_data, whatever the cards hold, None
\* included.
C1_SecondRunInsertsNothing ==
    \A i, j \in 1..Len(runs) :
        (/\ i < j
         /\ runs[i].status = "ok" /\ runs[j].status = "ok"
         /\ runs[i].sr /\ runs[j].sr
         /\ SameFetchedContent(runs[i], runs[j]))
        => runs[j].inserted = 0

\* C1, for the cards none of whose v1..v4 is None (what the code does keep)
C1_SecondRunInsertsNothingWhenComplete ==
    \A i, j \in 1..Len(runs) :
        (/\ i < j
         /\ runs[i].status = "ok" /\ runs[j].status = "ok"
         /\ runs[i].sr /\ runs[j].sr
         /\ SameFetchedContent(runs[i], runs[j])
         /\ \A k \in 1..Len(runs[j].rows) :
               LET r == runs[j].rows[k]
               IN  None \notin {r.v1, r.v2, r.v3, r.v4})
        => runs[j].inserted = 0

\* C2: clean_raw_dataframe called again on the same raw table leaves
\* cleaned_data with the row count it had after the first call.
C2_CleaningTwiceKeepsRowCount ==
    \A i \in 1..(Len(cleanings) - 1) :
        cleanings[i + 1].df = cleanings[i].df
            => cleanings[i + 1].count = cleanings[i].count

\* the uploaded row of the claim: a name and a price, and none of the address
\* and image columns
NameAndPriceOnly(row) ==
    /\ Truthy(Get(row, "name")) /\ Truthy(Get(row, "price"))
    /\ DOMAIN row \cap {"address", "location", "address_raw",
                        "image", "image_src", "image_link"} = {}

\* the textual form of a missing value
MissingText == Str(<<"N", "o", "n", "e">>)

\* C5: an uploaded row with a name and a price and no address or image column
\* gives a raw record whose v3 and v4 are the text of a missing value; it is
\* inserted when raw_data does not hold that record, and a second import of
\* the same table saves 0 rows.
C5_MissingColumnsBecomeText ==
    /\ \A i \in 1..Len(uploads) : \A k \in 1..Len(uploads[i].steps) :
          LET step == uploads[i].steps[k]
          IN  NameAndPriceOnly(step.row) =>
                /\ step.rec.v3 = MissingText /\ step.rec.v4 = MissingText
                /\ step.lacked => step.inserted
    /\ \A i \in 1..(Len(uploads) - 1) :
          (/\ uploads[i + 1].df = uploads[i].df
           /\ \A k \in 1..Len(uploads[i].df) : NameAndPriceOnly(uploads[i].df[k]))
          => uploads[i + 1].saved = 0

\* C6: save_uploaded_to_raw inserts a row exactly when raw_data holds no record
\* with the same (category, v1, v2, v3, v4), the category being "uploaded".
C6_UploadInsertsIffIdentityAbsent ==
    \A i \in 1..Len(uploads) : \A k \in 1..Len(uploads[i].steps) :
        uploads[i].steps[k].inserted <=> uploads[i].steps[k].lacked

HasDoubleSpace(s) ==
    \E i \in 1..(Len(s) - 1) : s[i] \in Whitespace /\ s[i + 1] \in Whitespace

\* C7: the address clean_address gives is absent or a non-empty string with no
\* "location_on" in it, no two whitespace characters in a row and no whitespace
\* at either end.
C7_AddressIsClean ==
    pc = "address_done" =>
        \/ addrOut = None
        \/ /\ IsStr(addrOut)
           /\ addrOut.s # <<>>
           /\ ~Contains(addrOut.s, Marker)
           /\ ~HasDoubleSpace(addrOut.s)
           /\ addrOut.s[1] \notin Whitespace
           /\ addrOut.s[Len(addrOut.s)] \notin Whitespace

\* C7 without the marker: what the code does keep
C7_AddressIsTrimmedAndSingleSpaced ==
    pc = "address_done" =>
        \/ addrOut = None
        \/ /\ IsStr(addrOut)
           /\ addrOut.s # <<>>
           /\ ~HasDoubleSpace(addrOut.s)
           /\ addrOut.s[1] \notin Whitespace
           /\ addrOut.s[Len(addrOut.s)] \notin Whitespace

\* C8: the cleaned name is v1 trimmed when v1 is a non-empty string and absent
\* otherwise, never the empty string.
C8_NameTrimmedOrAbsent ==
    \A i \in 1..Len(cleanings) : \A k \in 1..Len(cleanings[i].steps) :
        LET step == cleanings[i].steps[k]
        IN  /\ step.row.name =
                  (IF IsStr(step.raw.v1) /\ step.raw.v1.s # <<>>
                   THEN Str(Strip(step.raw.v1.s)) ELSE None)
            /\ step.row.name # Str(<<>>)

====
